---- MODULE Spec2Model ----
(***************************************************************************)
(* Model of the job orchestration in src-tauri/src/main.rs: the four       *)
(* background requests (extract_frames, smooth_video, reencode_only,       *)
(* run_rife_pipeline), the subprocesses they spawn, the pipes between a    *)
(* subprocess and its readers, and the events the listener receives.       *)
(*                                                                         *)
(* One job is followed from the request to the end of its background task. *)
(* Percentages are kept in tenths of a percent (100.0 is 1000, 99.9 is     *)
(* 999, 33.0 is 330) so that the code's f64 arithmetic is compared on      *)
(* integers; time is kept in ticks of TickMs milliseconds.                 *)
(*                                                                         *)
(* The computations the handlers make on their arguments (thread string,   *)
(* output frame rate, probe, model directory, job id, stderr tail, working *)
(* directory and model argument, tool validation and status) are followed  *)
(* one call at a time under FnSpec.                                        *)
(***************************************************************************)
EXTENDS Integers, Sequences, FiniteSets, TLC

\* ---------------------------------------------------------------- bounds
\* Lines an OS pipe holds before a writer blocks.
PipeCap == 1
\* Largest frame= counter / estimated total / file count that is enumerated.
MaxFrame == 2
MaxTotal == 2
MaxFiles == 2

\* A child may have more to write than a pipe holds.
MaxOut == PipeCap + 1

\* ------------------------------------------------------- program constants
ThrottleMs == 250
LogLimit == 400
SnippetLimit == 1200
TailLimit == 64
TailShown == 8
P100 == 1000
P999 == 999
P33 == 330

\* No progress value received yet.
NoPct == 0 - 1

\* The clock is followed in half throttle intervals.
TickMs == ThrottleMs \div 2

Min(a, b) == IF a < b THEN a ELSE b
Max(a, b) == IF a > b THEN a ELSE b

Stages == {"extract", "interp", "encode"}
Streams == {"stdout", "stderr"}

\* ------------------------------------------------------------------ text
\* A line of text is kept by its length after trimming (len), the number of
\* surrounding whitespace characters (pad) and whether an ellipsis was added.
MkLine(n, p) == [len |-> n, pad |-> p, ell |-> FALSE]
TextLines == {MkLine(0, 1), MkLine(3, 1), MkLine(SnippetLimit, 0)}
TaskText == MkLine(3, 0)

Trim(l) == [l EXCEPT !.pad = 0]
StrLen(l) == l.len + l.pad
IsEmpty(l) == StrLen(l) = 0

\* A line of the -progress protocol: key=value, or text without '='.
\* v = -1 stands for a value that does not parse as an integer.
KV(k, v) == [eq |-> TRUE, k |-> k, v |-> v]
NoEq(blank) == [eq |-> FALSE, k |-> IF blank THEN "" ELSE "text", v |-> 0]
ProgressLines ==
    {KV("frame", v) : v \in (0..MaxFrame) \cup {-1}}
        \cup {KV("fps", 0), KV("", 0), NoEq(TRUE), NoEq(FALSE)}

\* ---------------------------------------------------------------- events
Log(src, l) == [type |-> "log", src |-> src, val |-> l]
StageEv(n) == [type |-> "stage", src |-> "task", val |-> n]
ProgressEv(p) == [type |-> "progress", src |-> "task", val |-> p]
\* The message of a done event: a fixed text, then captured lines if any.
Msg(text) == [text |-> text, lines |-> <<>>]
MsgLines(text, lines) == [text |-> text, lines |-> lines]
DoneEv(ok, msg) == [type |-> "done", src |-> "task", val |-> [ok |-> ok, message |-> msg]]

\* app.emit: the listener's record of the events of the job, in emission
\* order.  Between two pipeline_stage / pipeline_done events the record keeps,
\* of the pipeline_progress events and of each emitter's pipeline_log events,
\* the latest one (in the place of the first), so that a polling loop does not
\* grow the record without bound.
LastMarker(ev) ==
    LET M == {i \in 1..Len(ev) : ev[i].type \in {"stage", "done"}}
    IN  IF M = {} THEN 0 ELSE CHOOSE i \in M : \A j \in M : j <= i

Emit(ev, e) ==
    LET same == {i \in (LastMarker(ev) + 1)..Len(ev) :
                    ev[i].type = e.type /\ ev[i].src = e.src}
    IN  IF e.type \in {"progress", "log"} /\ same # {}
        THEN [ev EXCEPT ![CHOOSE i \in same : TRUE] = e]
        ELSE Append(ev, e)

emit_stage_mut(ev, n) == ev
emit_stage(ev, n) == Emit(ev, StageEv(n))

emit_log_limited(ev, src, msg) ==
    LET t == Trim(msg)
        s == IF t.len > LogLimit THEN [t EXCEPT !.len = LogLimit, !.ell = TRUE] ELSE t
    IN  IF ~IsEmpty(s) THEN Emit(ev, Log(src, s)) ELSE ev

\* Several task-side log lines in a row.
RECURSIVE EmitLogs(_, _)
EmitLogs(ev, n) == IF n = 0 THEN ev ELSE EmitLogs(Emit(ev, Log("task", TaskText)), n - 1)

\* ----------------------------------------------------------------- state
VARIABLES
    pc,                 \* position of the job's background task
    req,                \* the request and the filesystem facts it is checked against
    result,             \* what the request handler returned: "none", "ok", "err"
    events,             \* events delivered to the listener, in order
    spawnLog,           \* subprocess launches, in order: [stage, ctx]
    child,              \* per stage, the subprocess and its two output streams
    rd,                 \* per stage and stream, the reader thread
    since_emit,         \* ticks since last_emit, followed up to the throttle interval
    frame,              \* frame counter parsed from frame= lines
    total_frames_est,   \* estimated total frame count
    frame_count,        \* count_files_in_dir of the job's frames directory
    stderr_snippet,     \* extract_frames_worker: collected stderr lines
    stderr_tail         \* smooth_video: retained tail of RIFE's stderr

vars == <<pc, req, result, events, spawnLog, child, rd, since_emit, frame,
          total_frames_est, frame_count, stderr_snippet, stderr_tail>>

NoReq == [kind |-> "none"]

NoChild ==
    [st |-> "none", status |-> "none",
     left |-> [x \in Streams |-> 0],
     buf |-> [x \in Streams |-> 0],
     mode |-> [x \in Streams |-> "null"]]

Init ==
    /\ pc = "idle"
    /\ req = NoReq
    /\ result = "none"
    /\ events = <<>>
    /\ spawnLog = <<>>
    /\ child = [s \in Stages |-> NoChild]
    /\ rd = [s \in Stages |-> [x \in Streams |-> "none"]]
    /\ since_emit = 0
    /\ frame = 0
    /\ total_frames_est = 0
    /\ frame_count = 0
    /\ stderr_snippet = <<>>
    /\ stderr_tail = <<>>

\* ------------------------------------------------------------ subprocess
\* Command::spawn succeeded: the child runs, with `no` lines to write to its
\* stdout and `ne` to its stderr; a stream is a pipe or /dev/null.  What goes
\* to /dev/null is discarded by the OS and is not followed.
Spawned(outMode, errMode, no, ne) ==
    [st |-> "running", status |-> "none",
     left |-> [x \in Streams |-> IF x = "stdout"
                                 THEN (IF outMode = "null" THEN 0 ELSE no)
                                 ELSE (IF errMode = "null" THEN 0 ELSE ne)],
     buf |-> [x \in Streams |-> 0],
     mode |-> [x \in Streams |-> IF x = "stdout" THEN outMode ELSE errMode]]

SpawnFailed == [NoChild EXCEPT !.st = "spawnfail"]

\* child.wait().map(|s| s.success()).unwrap_or(false); `waited` is whether
\* wait() itself returned Ok.
StageOk_mut(s, waited) == TRUE
StageOk(s, waited) == waited /\ child[s].status = "success"

\* The write end of a stream is closed and nothing is left in the pipe.
AtEof(s, x) == child[s].st = "exited" /\ child[s].buf[x] = 0
CanRead(s, x) == child[s].buf[x] > 0

\* The child writes one line.  To a pipe it needs room; to a pipe whose read
\* end was dropped the write fails, and the child is either killed by SIGPIPE
\* or carries on without the line.
ChildWrite(s, x) ==
    /\ child[s].st = "running"
    /\ child[s].left[x] > 0
    /\ \/ /\ child[s].mode[x] = "piped"
          /\ child[s].buf[x] < PipeCap
          /\ child' = [child EXCEPT ![s].left[x] = @ - 1, ![s].buf[x] = @ + 1]
       \/ /\ child[s].mode[x] = "closed"
          /\ \/ child' = [child EXCEPT ![s].left[x] = @ - 1]
             \/ child' = [child EXCEPT ![s].st = "exited", ![s].status = "failure",
                                       ![s].left = [y \in Streams |-> 0]]
    /\ UNCHANGED <<pc, req, result, events, spawnLog, rd, since_emit, frame,
                   total_frames_est, frame_count, stderr_snippet, stderr_tail>>

\* The child exits once it has written all of its output.
ChildExit(s) ==
    /\ child[s].st = "running"
    /\ \A x \in Streams : child[s].left[x] = 0
    /\ \E st \in {"success", "failure"} :
          child' = [child EXCEPT ![s].st = "exited", ![s].status = st]
    /\ UNCHANGED <<pc, req, result, events, spawnLog, rd, since_emit, frame,
                   total_frames_est, frame_count, stderr_snippet, stderr_tail>>

\* Time passes.  Only the throttled loops look at the clock, and only to
\* compare last_emit.elapsed() with the throttle interval, so the time since
\* last_emit is followed until it reaches that interval.
Tick ==
    /\ pc \in {"x_read", "r_read"}
    /\ since_emit * TickMs < ThrottleMs
    /\ since_emit' = since_emit + 1
    /\ UNCHANGED <<pc, req, result, events, spawnLog, child, rd, frame,
                   total_frames_est, frame_count, stderr_snippet, stderr_tail>>

\* -------------------------------------------------------------- requests
\* preferred_ffmpeg_path().or(ffmpeg_path): a system-wide ffmpeg is taken
\* before the one of the install tree.
ResolveFfmpeg(r) ==
    IF r.sysFfmpeg THEN "system" ELSE IF r.regFfmpeg THEN "registry" ELSE "none"

\* The handler returned Err(..) before anything was started.
Reject(r) ==
    /\ req' = r
    /\ result' = "err"
    /\ pc' = "rejected"
    /\ UNCHANGED <<events, spawnLog, child, rd, since_emit, frame,
                   total_frames_est, frame_count, stderr_snippet, stderr_tail>>

\* probe_duration_and_fps: runs ffprobe (twice) and waits for it, in the
\* context of the caller, when ffprobe sits next to ffmpeg.
probe_duration_and_fps(log, hasProbe, ctx) ==
    IF hasProbe THEN Append(log, [stage |-> "probe", ctx |-> ctx]) ELSE log

\* ---------------------------------------------------------- extract_frames
ExtractRequests ==
    [kind : {"extract"}, rootOk : BOOLEAN, sysFfmpeg : BOOLEAN, regFfmpeg : BOOLEAN,
     inputExists : BOOLEAN, dirOk : BOOLEAN]

extract_frames_valid(r) ==
    /\ r.rootOk
    /\ ResolveFfmpeg(r) # "none"
    /\ r.inputExists
    /\ r.dirOk

extract_frames ==
    /\ pc = "idle"
    /\ \E r \in ExtractRequests :
          \/ /\ ~extract_frames_valid(r)
             /\ Reject(r)
          \/ /\ extract_frames_valid(r)
             /\ req' = r
             /\ result' = "ok"
             /\ events' = emit_log_limited(emit_log_limited(events, "task", TaskText),
                                           "task", TaskText)
             /\ pc' = "x_probe"
             /\ UNCHANGED <<spawnLog, child, rd, since_emit, frame,
                            total_frames_est, frame_count, stderr_snippet, stderr_tail>>

\* extract_frames_worker, lines 683-692: the estimate of the total.
x_probe ==
    /\ pc = "x_probe"
    /\ \E hasProbe \in BOOLEAN, est \in 0..MaxTotal :
          /\ (~hasProbe => est = 0)
          /\ spawnLog' = probe_duration_and_fps(spawnLog, hasProbe, "task")
          /\ total_frames_est' = est
          /\ events' = IF est > 0 THEN emit_log_limited(events, "task", TaskText) ELSE events
    /\ pc' = "x_spawn"
    /\ UNCHANGED <<req, result, child, rd, since_emit, frame,
                   frame_count, stderr_snippet, stderr_tail>>

\* The thread closure of extract_frames: the worker's result becomes the one
\* pipeline_done event.
x_done_mut(ev, ok, msg) == IF ok THEN Emit(ev, DoneEv(ok, msg)) ELSE ev
x_done(ev, ok, msg) == Emit(ev, DoneEv(ok, msg))

\* extract_frames_worker, lines 694-752: spawn ffmpeg, start the stderr
\* thread, enter the stdout loop.
x_spawn ==
    /\ pc = "x_spawn"
    /\ spawnLog' = Append(spawnLog, [stage |-> "extract", ctx |-> "task"])
    /\ \/ /\ child' = [child EXCEPT !["extract"] = SpawnFailed]
          /\ events' = x_done(events, FALSE, Msg("Failed to start ffmpeg"))
          /\ pc' = "finished"
          /\ UNCHANGED <<rd, since_emit, frame>>
       \/ /\ \E no \in 0..MaxOut, ne \in 0..MaxOut :
                child' = [child EXCEPT !["extract"] = Spawned("piped", "piped", no, ne)]
          /\ rd' = [rd EXCEPT !["extract"]["stderr"] = "running"]
          /\ since_emit' = 0
          /\ frame' = 0
          /\ pc' = "x_read"
          /\ UNCHANGED events
    /\ UNCHANGED <<req, result, since_emit, total_frames_est, frame_count, stderr_snippet, stderr_tail>>

\* parse_ffmpeg_progress_line: Some((k, v)) when the line has '=' and a
\* non-empty key.
parse_ffmpeg_progress_line(line) == line.eq /\ line.k # ""

\* v.parse::<i64>().unwrap_or(frame)
ParseFrame(line, old) == IF line.k = "frame" /\ line.v # -1 THEN line.v ELSE old

\* last_emit.elapsed().as_millis()
Elapsed == since_emit * TickMs

\* if last_emit.elapsed().as_millis() >= 250
EmitDue_mut == TRUE
EmitDue == Elapsed >= ThrottleMs

\* if total_frames_est > 0 && frame > 0: whether a percentage is computed.
HasPct_mut(total, f) == f > 0
HasPct(total, f) == total > 0 /\ f > 0

\* ((frame / total) * 100.0).min(100.0), in tenths of a percent.  In f64 a
\* positive frame over a total of 0 is +inf, which .min() brings to the cap.
ExtractPct(f, total) == IF total = 0 THEN P100 ELSE Min((f * P100) \div total, P100)

\* extract_frames_worker, lines 754-768: one line of the stdout loop.
x_read ==
    /\ pc = "x_read"
    /\ \/ /\ CanRead("extract", "stdout")
          /\ child' = [child EXCEPT !["extract"].buf["stdout"] = @ - 1]
          /\ \E line \in ProgressLines :
                LET f == IF parse_ffmpeg_progress_line(line) THEN ParseFrame(line, frame) ELSE frame
                    due == parse_ffmpeg_progress_line(line) /\ EmitDue
                IN  /\ frame' = f
                    /\ since_emit' = IF due THEN 0 ELSE since_emit
                    /\ events' = IF due /\ HasPct(total_frames_est, f)
                                 THEN Emit(events, ProgressEv(ExtractPct(f, total_frames_est)))
                                 ELSE events
          /\ pc' = "x_read"
       \/ /\ AtEof("extract", "stdout")
          /\ pc' = "x_wait"
          /\ UNCHANGED <<child, frame, since_emit, events>>
    /\ UNCHANGED <<req, result, spawnLog, rd, total_frames_est, frame_count,
                   stderr_snippet, stderr_tail>>

\* Length of the collected snippet: the lines joined by '\n' (a line pushed
\* onto an empty snippet is not preceded by '\n').
RECURSIVE SnippetLen(_)
SnippetLen(s) ==
    IF s = <<>> THEN 0
    ELSE StrLen(s[1]) + (IF Len(s) > 1 THEN 1 ELSE 0) + SnippetLen(Tail(s))

\* extract_frames_worker, lines 771-792 with the closure of lines 629-652:
\* wait, count the frame files, progress 100, the result, pipeline_done.
x_wait ==
    /\ pc = "x_wait"
    /\ child["extract"].st = "exited"
    /\ \/ /\ events' = x_done(events, FALSE, Msg("Failed waiting for ffmpeg"))
          /\ UNCHANGED frame_count
       \/ \E n \in 0..MaxFiles :
          LET e1 == IF n > 0 THEN Emit(events, ProgressEv(P100)) ELSE events
              failed == child["extract"].status # "success"
              snipEmpty == \A i \in 1..Len(stderr_snippet) : stderr_snippet[i].len = 0
              e2 == IF failed THEN emit_log_limited(e1, "task", TaskText) ELSE e1
              msg == IF failed
                     THEN (IF snipEmpty THEN Msg("ffmpeg exited with status")
                           ELSE MsgLines("ffmpeg exited with status", stderr_snippet))
                     ELSE IF n <= 0 THEN Msg("No frames were extracted")
                     ELSE Msg("Frames extracted")
              ok == ~failed /\ n > 0
          IN  /\ events' = x_done(e2, ok, msg)
              /\ frame_count' = n
    /\ pc' = "finished"
    /\ UNCHANGED <<req, result, spawnLog, child, rd, since_emit, frame,
                   total_frames_est, stderr_snippet, stderr_tail>>

\* extract_frames_worker, lines 732-746: the detached stderr thread.  It
\* stops reading, and drops the pipe, once the snippet holds 1200 bytes.
x_stderr_thread ==
    /\ rd["extract"]["stderr"] = "running"
    /\ req.kind = "extract"
    /\ \/ /\ CanRead("extract", "stderr")
          /\ \E line \in TextLines :
                IF SnippetLen(stderr_snippet) < SnippetLimit
                THEN /\ stderr_snippet' = IF SnippetLen(stderr_snippet) = 0 THEN <<line>>
                                            ELSE Append(stderr_snippet, line)
                     /\ child' = [child EXCEPT !["extract"].buf["stderr"] = @ - 1]
                     /\ UNCHANGED rd
                ELSE /\ child' = [child EXCEPT !["extract"].buf["stderr"] = 0,
                                               !["extract"].mode["stderr"] = "closed"]
                     /\ rd' = [rd EXCEPT !["extract"]["stderr"] = "stopped"]
                     /\ UNCHANGED stderr_snippet
       \/ /\ AtEof("extract", "stderr")
          /\ rd' = [rd EXCEPT !["extract"]["stderr"] = "eof"]
          /\ UNCHANGED <<child, stderr_snippet>>
    /\ UNCHANGED <<pc, req, result, events, spawnLog, since_emit, frame,
                   total_frames_est, frame_count, stderr_tail>>

\* ------------------------------------------------------------ smooth_video
SmoothRequests ==
    [kind : {"smooth"}, rootOk : BOOLEAN, sysFfmpeg : BOOLEAN, regFfmpeg : BOOLEAN,
     rife : BOOLEAN, models : BOOLEAN, inputExists : BOOLEAN, outputEmpty : BOOLEAN,
     dirOk : BOOLEAN]

smooth_video_valid(r) ==
    /\ r.rootOk
    /\ ResolveFfmpeg(r) # "none"
    /\ r.rife
    /\ r.models
    /\ r.inputExists
    /\ ~r.outputEmpty
    /\ r.dirOk

\* smooth_video, lines 833-890 and 1086-1091.
smooth_video ==
    /\ pc = "idle"
    /\ \E r \in SmoothRequests :
          \/ /\ ~smooth_video_valid(r)
             /\ Reject(r)
          \/ /\ smooth_video_valid(r)
             /\ req' = r
             /\ result' = "ok"
             /\ events' = Emit(Emit(emit_stage(events, 1), ProgressEv(0)), Log("task", TaskText))
             /\ pc' = "s_extract"
             /\ UNCHANGED <<spawnLog, child, rd, since_emit, frame,
                            total_frames_est, frame_count, stderr_snippet, stderr_tail>>

\* smooth_video, lines 891-916: STEP 1, spawn ffmpeg with stdout to null;
\* the task goes on at `next`.
s_extract_then(next) ==
    /\ pc = "s_extract"
    /\ spawnLog' = Append(spawnLog, [stage |-> "extract", ctx |-> "task"])
    /\ \/ /\ child' = [child EXCEPT !["extract"] = SpawnFailed]
          /\ events' = Emit(EmitLogs(events, 3), DoneEv(FALSE, Msg("FFmpeg failed to start")))
          /\ pc' = "finished"
       \/ /\ \E no \in 0..MaxOut, ne \in 0..MaxOut :
                child' = [child EXCEPT !["extract"] = Spawned("null", "piped", no, ne)]
          /\ events' = EmitLogs(events, 3)
          /\ pc' = next
    /\ UNCHANGED <<req, result, rd, since_emit, frame, total_frames_est, frame_count,
                   stderr_snippet, stderr_tail>>

s_extract_nowait == s_extract_then("s_rife")
s_extract == s_extract_then("s_extract_read")

\* The inline stderr loops of smooth_video (lines 919-927 and 1057-1065):
\* every non-empty trimmed line becomes a log event.
InlineStderr(s, here, next) ==
    /\ pc = here
    /\ \/ /\ CanRead(s, "stderr")
          /\ child' = [child EXCEPT ![s].buf["stderr"] = @ - 1]
          /\ \E line \in TextLines :
                events' = IF ~IsEmpty(Trim(line)) THEN Emit(events, Log("stderr", Trim(line)))
                          ELSE events
          /\ pc' = here
       \/ /\ AtEof(s, "stderr")
          /\ pc' = next
          /\ UNCHANGED <<child, events>>
    /\ UNCHANGED <<req, result, spawnLog, rd, since_emit, frame, total_frames_est,
                   frame_count, stderr_snippet, stderr_tail>>

s_extract_read == InlineStderr("extract", "s_extract_read", "s_extract_wait")

\* smooth_video, lines 928-946: wait for ffmpeg; on success count the frames
\* and announce step 2.
s_extract_wait ==
    /\ pc = "s_extract_wait"
    /\ child["extract"].st = "exited"
    /\ \E waited \in BOOLEAN :
          IF ~StageOk("extract", waited)
          THEN /\ events' = Emit(events, DoneEv(FALSE, Msg("Frame extraction failed")))
               /\ pc' = "finished"
               /\ UNCHANGED frame_count
          ELSE /\ \E n \in 0..MaxFiles : frame_count' = n
               /\ events' = EmitLogs(emit_stage(events, 2), 3)
               /\ pc' = "s_rife"
    /\ UNCHANGED <<req, result, spawnLog, child, rd, since_emit, frame,
                   total_frames_est, stderr_snippet, stderr_tail>>

\* smooth_video, lines 948-999: spawn RIFE with both streams piped; only
\* stderr is taken and given a reader thread.
s_rife ==
    /\ pc = "s_rife"
    /\ spawnLog' = Append(spawnLog, [stage |-> "interp", ctx |-> "task"])
    /\ \/ /\ child' = [child EXCEPT !["interp"] = SpawnFailed]
          /\ events' = Emit(events, DoneEv(FALSE, Msg("RIFE failed to start")))
          /\ pc' = "finished"
          /\ UNCHANGED rd
       \/ /\ \E no \in 0..MaxOut, ne \in 0..MaxOut :
                child' = [child EXCEPT !["interp"] = Spawned("piped", "piped", no, ne)]
          /\ rd' = [rd EXCEPT !["interp"]["stderr"] = "running"]
          /\ pc' = "s_poll"
          /\ UNCHANGED events
    /\ UNCHANGED <<req, result, since_emit, frame, total_frames_est, frame_count,
                   stderr_snippet, stderr_tail>>

\* count_files_in_dir(&frames_in_for_task).max(1)
in_count == Max(frame_count, 1)

\* The file counts the polling loop can find in frames_out: what a run
\* produces, or more than twice the input when older files lie there.
OutCounts == (0..MaxFiles) \cup {2 * MaxFiles + 1}

\* 33.0 + ((out_count / (in_count * 2.0)) * 33.0).max(0.0).min(33.0)
PollPct_mut(out_count, n) == P33 + Max((out_count * P33) \div (n * 2), 0)
PollPct(out_count, n) == P33 + Min(Max((out_count * P33) \div (n * 2), 0), P33)

\* smooth_video, lines 1001-1008: one turn of the polling loop.
s_poll ==
    /\ pc = "s_poll"
    /\ \/ /\ child["interp"].st = "running"
          /\ \E out_count \in OutCounts :
                events' = Emit(events, ProgressEv(PollPct(out_count, in_count)))
          /\ pc' = "s_poll"
       \/ /\ child["interp"].st = "exited"
          /\ pc' = "s_join"
          /\ UNCHANGED events
    /\ UNCHANGED <<req, result, spawnLog, child, rd, since_emit, frame,
                   total_frames_est, frame_count, stderr_snippet, stderr_tail>>

\* t.push(line); if len > 64 { t.drain(0..(len - 64)) }
PushTail_mut(t, line) == Append(t, line)
PushTail(t, line) ==
    LET u == Append(t, line)
    IN  IF Len(u) > TailLimit THEN SubSeq(u, Len(u) - TailLimit + 1, Len(u)) ELSE u

\* smooth_video, lines 980-999: RIFE's stderr thread.
s_rife_stderr_thread ==
    /\ rd["interp"]["stderr"] = "running"
    /\ req.kind = "smooth"
    /\ \/ /\ CanRead("interp", "stderr")
          /\ child' = [child EXCEPT !["interp"].buf["stderr"] = @ - 1]
          /\ \E line \in TextLines :
                IF IsEmpty(Trim(line))
                THEN UNCHANGED <<stderr_tail, events>>
                ELSE /\ stderr_tail' = PushTail(stderr_tail, Trim(line))
                     /\ events' = Emit(events, Log("stderr", Trim(line)))
          /\ UNCHANGED rd
       \/ /\ AtEof("interp", "stderr")
          /\ rd' = [rd EXCEPT !["interp"]["stderr"] = "eof"]
          /\ UNCHANGED <<child, stderr_tail, events>>
    /\ UNCHANGED <<pc, req, result, spawnLog, since_emit, frame,
                   total_frames_est, frame_count, stderr_snippet>>

\* The last 8 lines of the tail, joined: the failure message.
TailMessage(t) == SubSeq(t, Max(Len(t) - TailShown, 0) + 1, Len(t))

\* smooth_video, lines 1010-1055: join the stderr thread, wait for RIFE; on
\* success announce step 3 and spawn the encoder.
s_join ==
    /\ pc = "s_join"
    /\ rd["interp"]["stderr"] = "eof"
    /\ child["interp"].st = "exited"
    /\ \E waited \in BOOLEAN :
          IF ~StageOk("interp", waited)
          THEN /\ events' = Emit(events, DoneEv(FALSE,
                                 IF TailMessage(stderr_tail) = <<>> THEN Msg("RIFE failed")
                                 ELSE MsgLines("", TailMessage(stderr_tail))))
               /\ pc' = "finished"
               /\ UNCHANGED <<spawnLog, child>>
          ELSE /\ spawnLog' = Append(spawnLog, [stage |-> "encode", ctx |-> "task"])
               /\ \/ /\ child' = [child EXCEPT !["encode"] = SpawnFailed]
                     /\ events' = Emit(emit_stage(events, 3),
                                       DoneEv(FALSE, Msg("Encode failed to start")))
                     /\ pc' = "finished"
                  \/ /\ \E no \in 0..MaxOut, ne \in 0..MaxOut :
                           child' = [child EXCEPT !["encode"] = Spawned("null", "piped", no, ne)]
                     /\ events' = emit_stage(events, 3)
                     /\ pc' = "s_encode_read"
    /\ UNCHANGED <<req, result, rd, since_emit, frame, total_frames_est, frame_count,
                   stderr_snippet, stderr_tail>>

s_encode_read == InlineStderr("encode", "s_encode_read", "s_encode_wait")

\* smooth_video, lines 1066-1083.
s_encode_wait ==
    /\ pc = "s_encode_wait"
    /\ child["encode"].st = "exited"
    /\ \E waited \in BOOLEAN :
          events' = IF ~StageOk("encode", waited)
                    THEN Emit(events, DoneEv(FALSE, Msg("Encoding failed")))
                    ELSE Emit(Emit(events, ProgressEv(P100)), DoneEv(TRUE, Msg("Done")))
    /\ pc' = "finished"
    /\ UNCHANGED <<req, result, spawnLog, child, rd, since_emit, frame,
                   total_frames_est, frame_count, stderr_snippet, stderr_tail>>

\* ----------------------------------------------------------- reencode_only
ReencodeRequests ==
    [kind : {"reencode"}, rootOk : BOOLEAN, sysFfmpeg : BOOLEAN, regFfmpeg : BOOLEAN,
     inputExists : BOOLEAN, outputEmpty : BOOLEAN, framesDirEmpty : BOOLEAN,
     framesDirExists : BOOLEAN]

reencode_only_valid_mut(r) ==
    /\ r.rootOk
    /\ ResolveFfmpeg(r) # "none"
    /\ r.inputExists
    /\ ~r.framesDirEmpty
    /\ r.framesDirExists

reencode_only_valid(r) ==
    /\ r.rootOk
    /\ ResolveFfmpeg(r) # "none"
    /\ r.inputExists
    /\ ~r.outputEmpty
    /\ ~r.framesDirEmpty
    /\ r.framesDirExists

\* reencode_only, lines 1103-1154 and 1253-1258: after validation the handler
\* counts the frame files and probes the input before it starts the thread.
reencode_only ==
    /\ pc = "idle"
    /\ \E r \in ReencodeRequests :
          \/ /\ ~reencode_only_valid(r)
             /\ Reject(r)
          \/ /\ reencode_only_valid(r)
             /\ req' = r
             /\ result' = "ok"
             /\ \E n \in 0..MaxTotal : total_frames_est' = Max(n, 0)
             /\ \E hasProbe \in BOOLEAN :
                   spawnLog' = probe_duration_and_fps(spawnLog, hasProbe, "handler")
             /\ pc' = "r_start"
             /\ UNCHANGED <<events, child, rd, since_emit, frame,
                            frame_count, stderr_snippet, stderr_tail>>

\* reencode_only, lines 1155-1212: progress 0, a log line, spawn ffmpeg,
\* start the detached stderr thread.
r_start ==
    /\ pc = "r_start"
    /\ spawnLog' = Append(spawnLog, [stage |-> "encode", ctx |-> "task"])
    /\ LET e0 == emit_log_limited(Emit(events, ProgressEv(0)), "task", TaskText)
       IN  \/ /\ child' = [child EXCEPT !["encode"] = SpawnFailed]
              /\ events' = Emit(e0, DoneEv(FALSE, Msg("ffmpeg failed to start")))
              /\ pc' = "finished"
              /\ UNCHANGED <<rd, since_emit, frame>>
           \/ /\ \E no \in 0..MaxOut, ne \in 0..MaxOut :
                    child' = [child EXCEPT !["encode"] = Spawned("piped", "piped", no, ne)]
              /\ rd' = [rd EXCEPT !["encode"]["stderr"] = "running"]
              /\ events' = e0
              /\ since_emit' = 0
              /\ frame' = 0
              /\ pc' = "r_read"
    /\ UNCHANGED <<req, result, since_emit, total_frames_est, frame_count, stderr_snippet, stderr_tail>>

\* ((frame / total) * 100.0).min(99.9), in tenths of a percent.
ReencodePct(f, total) == IF total = 0 THEN P999 ELSE Min((f * P100) \div total, P999)

\* line.trim(); skipped when empty; line.split_once('=')
ReencodeSplit(line) == line.eq

\* reencode_only, lines 1213-1232: one line of the stdout loop.
r_read ==
    /\ pc = "r_read"
    /\ \/ /\ CanRead("encode", "stdout")
          /\ child' = [child EXCEPT !["encode"].buf["stdout"] = @ - 1]
          /\ \E line \in ProgressLines :
                LET f == IF ReencodeSplit(line) THEN ParseFrame(line, frame) ELSE frame
                    due == ReencodeSplit(line) /\ EmitDue
                IN  /\ frame' = f
                    /\ since_emit' = IF due THEN 0 ELSE since_emit
                    /\ events' = IF due /\ HasPct(total_frames_est, f)
                                 THEN Emit(events, ProgressEv(ReencodePct(f, total_frames_est)))
                                 ELSE events
          /\ pc' = "r_read"
       \/ /\ AtEof("encode", "stdout")
          /\ pc' = "r_wait"
          /\ UNCHANGED <<child, frame, since_emit, events>>
    /\ UNCHANGED <<req, result, spawnLog, rd, total_frames_est, frame_count,
                   stderr_snippet, stderr_tail>>

\* reencode_only, lines 1234-1250.
r_wait ==
    /\ pc = "r_wait"
    /\ child["encode"].st = "exited"
    /\ \E waited \in BOOLEAN :
          events' = IF StageOk("encode", waited)
                    THEN Emit(Emit(events, ProgressEv(P100)), DoneEv(TRUE, Msg("Done")))
                    ELSE Emit(events, DoneEv(FALSE, Msg("Re-encode failed")))
    /\ pc' = "finished"
    /\ UNCHANGED <<req, result, spawnLog, child, rd, since_emit, frame,
                   total_frames_est, frame_count, stderr_snippet, stderr_tail>>

\* reencode_only, lines 1201-1209: the detached stderr thread.
r_stderr_thread ==
    /\ rd["encode"]["stderr"] = "running"
    /\ req.kind = "reencode"
    /\ \/ /\ CanRead("encode", "stderr")
          /\ child' = [child EXCEPT !["encode"].buf["stderr"] = @ - 1]
          /\ \E line \in TextLines : events' = emit_log_limited(events, "stderr", line)
          /\ UNCHANGED rd
       \/ /\ AtEof("encode", "stderr")
          /\ rd' = [rd EXCEPT !["encode"]["stderr"] = "eof"]
          /\ UNCHANGED <<child, events>>
    /\ UNCHANGED <<pc, req, result, spawnLog, since_emit, frame,
                   total_frames_est, frame_count, stderr_snippet, stderr_tail>>

\* ------------------------------------------------------- run_rife_pipeline
RifeRequests ==
    [kind : {"raw"}, rootOk : BOOLEAN, rife : BOOLEAN, modelExists : BOOLEAN,
     inDirExists : BOOLEAN, outDirOk : BOOLEAN, hasCwd : BOOLEAN]

run_rife_pipeline_valid(r) ==
    /\ r.rootOk
    /\ r.rife
    /\ r.modelExists
    /\ r.inDirExists
    /\ r.outDirOk

\* run_rife_pipeline, lines 482-503 and 590.
run_rife_pipeline ==
    /\ pc = "idle"
    /\ \E r \in RifeRequests :
          \/ /\ ~run_rife_pipeline_valid(r)
             /\ Reject(r)
          \/ /\ run_rife_pipeline_valid(r)
             /\ req' = r
             /\ result' = "ok"
             /\ pc' = "p_start"
             /\ UNCHANGED <<events, spawnLog, child, rd, since_emit, frame,
                            total_frames_est, frame_count, stderr_snippet, stderr_tail>>

\* The payload of run_rife_pipeline's pipeline_done is the bare string "ok" or
\* "failed".
RawDone(ok) == DoneEv(ok, Msg(IF ok THEN "ok" ELSE "failed"))

\* run_rife_pipeline, lines 504-568: the log lines, spawn RIFE, start one
\* reader thread per stream.
p_start ==
    /\ pc = "p_start"
    /\ spawnLog' = Append(spawnLog, [stage |-> "interp", ctx |-> "task"])
    /\ LET e0 == EmitLogs(events, IF req.hasCwd THEN 6 ELSE 5)
       IN  \/ /\ child' = [child EXCEPT !["interp"] = SpawnFailed]
              /\ events' = Emit(Emit(e0, Log("task", TaskText)), RawDone(FALSE))
              /\ pc' = "finished"
              /\ UNCHANGED rd
           \/ /\ \E no \in 0..MaxOut, ne \in 0..MaxOut :
                    child' = [child EXCEPT !["interp"] = Spawned("piped", "piped", no, ne)]
              /\ rd' = [rd EXCEPT !["interp"] = [x \in Streams |-> "running"]]
              /\ events' = e0
              /\ pc' = "p_wait"
    /\ UNCHANGED <<req, result, since_emit, frame, total_frames_est, frame_count,
                   stderr_snippet, stderr_tail>>

\* run_rife_pipeline, lines 547-568: a reader thread; a line is logged as
\* read (untrimmed) unless it is blank.
p_reader_thread(x) ==
    /\ rd["interp"][x] = "running"
    /\ req.kind = "raw"
    /\ \/ /\ CanRead("interp", x)
          /\ child' = [child EXCEPT !["interp"].buf[x] = @ - 1]
          /\ \E line \in TextLines :
                events' = IF ~IsEmpty(Trim(line)) THEN Emit(events, Log(x, line)) ELSE events
          /\ UNCHANGED rd
       \/ /\ AtEof("interp", x)
          /\ rd' = [rd EXCEPT !["interp"][x] = "eof"]
          /\ UNCHANGED <<child, events>>
    /\ UNCHANGED <<pc, req, result, spawnLog, since_emit, frame,
                   total_frames_est, frame_count, stderr_snippet, stderr_tail>>

\* run_rife_pipeline, lines 570-577: child.wait() returns the status once the
\* child has exited; when the wait itself fails the task reports failure
\* without joining the readers.
p_wait ==
    /\ pc = "p_wait"
    /\ \/ /\ child["interp"].st = "exited"
          /\ pc' = "p_join"
          /\ UNCHANGED events
       \/ /\ events' = Emit(Emit(events, Log("task", TaskText)), RawDone(FALSE))
          /\ pc' = "finished"
    /\ UNCHANGED <<req, result, spawnLog, child, rd, since_emit, frame,
                   total_frames_est, frame_count, stderr_snippet, stderr_tail>>

\* run_rife_pipeline, lines 579-587: join both readers, then the outcome.
p_join ==
    /\ pc = "p_join"
    /\ \A x \in Streams : rd["interp"][x] = "eof"
    /\ events' = IF child["interp"].status = "success"
                 THEN Emit(events, RawDone(TRUE))
                 ELSE Emit(Emit(events, Log("task", TaskText)), RawDone(FALSE))
    /\ pc' = "finished"
    /\ UNCHANGED <<req, result, spawnLog, child, rd, since_emit, frame,
                   total_frames_est, frame_count, stderr_snippet, stderr_tail>>

\* ------------------------------------------------------------------- spec
Next ==
    \/ extract_frames
    \/ x_probe
    \/ x_spawn
    \/ x_read
    \/ x_wait
    \/ x_stderr_thread
    \/ smooth_video
    \/ s_extract
    \/ s_extract_read
    \/ s_extract_wait
    \/ s_rife
    \/ s_poll
    \/ s_rife_stderr_thread
    \/ s_join
    \/ s_encode_read
    \/ s_encode_wait
    \/ reencode_only
    \/ r_start
    \/ r_read
    \/ r_wait
    \/ r_stderr_thread
    \/ run_rife_pipeline
    \/ p_start
    \/ p_reader_thread("stdout")
    \/ p_reader_thread("stderr")
    \/ p_wait
    \/ p_join
    \/ \E s \in Stages, x \in Streams : ChildWrite(s, x)
    \/ \E s \in Stages : ChildExit(s)
    \/ Tick

Spec == Init /\ [][Next]_vars

\* The scheduler runs every thread that can take a step: the job's task, each
\* reader thread, and each subprocess (which writes when the pipe has room and
\* exits once it has written everything).  Requests and the clock are not
\* forced.
TaskStep ==
    \/ x_probe \/ x_spawn \/ x_read \/ x_wait
    \/ s_extract \/ s_extract_read \/ s_extract_wait \/ s_rife \/ s_poll \/ s_join
    \/ s_encode_read \/ s_encode_wait
    \/ r_start \/ r_read \/ r_wait
    \/ p_start \/ p_wait \/ p_join

ChildStep(s) ==
    \/ \E x \in Streams : ChildWrite(s, x)
    \/ ChildExit(s)

FairSpec ==
    /\ Spec
    /\ WF_vars(TaskStep)
    /\ WF_vars(x_stderr_thread)
    /\ WF_vars(s_rife_stderr_thread)
    /\ WF_vars(r_stderr_thread)
    /\ \A x \in Streams : WF_vars(p_reader_thread(x))
    /\ \A s \in Stages : WF_vars(ChildStep(s))

\* ------------------------------------------------ functions of the handlers
\* The computations the handlers make on their arguments, the clock and the
\* filesystem are followed one call at a time: req is the call with its
\* inputs, result what it returned.

\* Largest thread hint that is enumerated.
MaxHint == 20

MaxThreads == 12
DefaultThreads == 2

\* Option<T>
Some(v) == [some |-> TRUE, v |-> v]
None == [some |-> FALSE, v |-> 0]
unwrap_or(o, d) == IF o.some THEN o.v ELSE d

clamp(t, lo, hi) == Max(lo, Min(t, hi))

\* format!("{t}:{t}:{t}")
ThreadString(t) == <<t, t, t>>

\* smooth_video, lines 864-871.
threads_mut(max_threads) ==
    LET t == unwrap_or(max_threads, 0)
    IN  IF t <= 0 THEN ThreadString(DefaultThreads) ELSE ThreadString(t)
threads(max_threads) ==
    LET t == unwrap_or(max_threads, 0)
    IN  IF t <= 0 THEN ThreadString(DefaultThreads)
        ELSE ThreadString(clamp(t, 1, MaxThreads))

ThreadCalls ==
    [kind : {"threads"}, max_threads : {None} \cup {Some(v) : v \in (0 - MaxHint)..MaxHint}]

\* A number in ffprobe's output: one that parses, or text that does not.
Num(v) == [ok |-> TRUE, v |-> v]
NaNum == [ok |-> FALSE, v |-> 0]

\* A frame rate is kept as a fraction.
Rat(n, d) == [num |-> n, den |-> d]

\* The r_frame_rate text: "a/b" or a single number.
Frac(a, b) == [slash |-> TRUE, a |-> a, b |-> b]
Plain(a) == [slash |-> FALSE, a |-> a, b |-> NaNum]
FpsTexts ==
    {Frac(Num(24), Num(1)), Frac(Num(30), Num(7)), Frac(Num(0), Num(0)),
     Frac(Num(24), NaNum), Frac(NaNum, Num(1)), Plain(Num(24)), Plain(NaNum)}

\* probe_duration_and_fps, lines 28-57: the frame rate it returns.  hasProbe:
\* ffprobe sits next to ffmpeg and runs; durOk: the duration it prints parses.
probe_fps(p) ==
    IF ~p.hasProbe \/ ~p.durOk THEN None
    ELSE IF p.fps_s.slash
         THEN IF ~p.fps_s.a.ok \/ ~p.fps_s.b.ok THEN None
              ELSE Some(IF p.fps_s.b.v # 0 THEN Rat(p.fps_s.a.v, p.fps_s.b.v) ELSE Rat(0, 1))
    ELSE Some(IF p.fps_s.a.ok THEN Rat(p.fps_s.a.v, 1) ELSE Rat(0, 1))

DefaultFps == 30
Micro == 1000000

\* format!("{:.6}", x): x rounded to six decimals, in millionths.
Format6(x) == (2 * x.num * Micro + x.den) \div (2 * x.den)

\* reencode_only, lines 1136-1138: (fps_in * 2.0).max(1.0), formatted.
fps_out(probe) ==
    LET fps_in == unwrap_or(probe, Rat(DefaultFps, 1))
        twice == Rat(2 * fps_in.num, fps_in.den)
    IN  Format6(IF twice.num >= twice.den THEN twice ELSE Rat(1, 1))

FpsCalls == [kind : {"fps_out"}, hasProbe : BOOLEAN, durOk : BOOLEAN, fps_s : FpsTexts]
ProbeCalls == [kind : {"probe"}, hasProbe : BOOLEAN, durOk : BOOLEAN, fps_s : FpsTexts]

\* Largest number of entries of the model directory that is enumerated.
MaxEntries == 3

\* The directory p as read_dir yields it: entries with a name and a kind, in
\* the order of the listing.  listable: read_dir(p) succeeds.
Names == {"flownet.bin", "model.param", "rife-v2.3", "rife-v4.6", "rife-anime"}
Entry == [name : Names, dir : BOOLEAN]
Listings ==
    {l \in UNION {[1..n -> Entry] : n \in 0..MaxEntries} :
        \A i, j \in 1..Len(l) : l[i].name = l[j].name => i = j}

\* p.join(name).exists()
exists(l, name) == \E i \in 1..Len(l) : l[i].name = name

\* A path is kept relative to p: p itself, or p.join(name).
P == <<>>
join(p, name) == Append(p, name)

\* for e in rd.flatten() { if path.is_dir() { return path } }
RECURSIVE FirstDir(_)
FirstDir(l) ==
    IF l = <<>> THEN P
    ELSE IF Head(l).dir THEN join(P, Head(l).name)
    ELSE FirstDir(Tail(l))

\* resolve_rife_model_path, lines 303-323.
resolve_rife_model_path_mut(l, listable) ==
    IF exists(l, "flownet.bin") \/ exists(l, "model.param") THEN P
    ELSE IF listable THEN FirstDir(l)
    ELSE P
resolve_rife_model_path(l, listable) ==
    IF exists(l, "flownet.bin") \/ exists(l, "model.param") THEN P
    ELSE IF exists(l, "rife-v2.3") THEN join(P, "rife-v2.3")
    ELSE IF listable THEN FirstDir(l)
    ELSE P

ResolveCalls == [kind : {"resolve"}, listing : Listings, listable : BOOLEAN]

\* Clock readings, in nanoseconds since the epoch: steps of half a
\* millisecond from the epoch and from the first full second.
MaxClock == 2
NanosPerSec == 1000000000
NanosPerMilli == 1000000
HalfMilli == NanosPerMilli \div 2
ClockReadings == {base + k * HalfMilli : base \in {0, NanosPerSec}, k \in 0..MaxClock}

\* make_job_id, lines 459-465: format!("job-{}-{}", as_secs, subsec_nanos)
make_job_id(now) == <<"job", now \div NanosPerSec, now % NanosPerSec>>

\* smooth_video, line 853: format!("job-{}", timestamp_millis)
smooth_job_id(now) == <<"job", now \div NanosPerMilli>>

\* The job id and the working directories of a request accepted at `now`.
job_id(kind, now) == IF kind = "extract" THEN make_job_id(now) ELSE smooth_job_id(now)
frames_in_dir(id) == <<"temp", "frames_in", id>>
frames_out_dir(id) == <<"temp", "frames_out", id>>

\* Two requests, the second accepted at a later clock reading.
JobIdCalls ==
    {c \in [kind : {"job_ids"}, first : {"extract", "smooth"}, second : {"extract", "smooth"},
            now1 : ClockReadings, now2 : ClockReadings] : c.now1 < c.now2}

\* RIFE's stderr as the reader thread of smooth_video receives it: n lines, the
\* i-th of i characters between whitespace, every k-th one blank (k = 0: none);
\* read is the number of lines the thread has taken from the pipe.
MaxExtra == 2
MaxLines == 2 * (TailLimit + MaxExtra)
BlankEvery == {0, 2, 3}
StderrStream(n, k) ==
    [i \in 1..n |-> IF k > 0 /\ i % k = 0 THEN MkLine(0, 1) ELSE MkLine(i, 1)]

TailCalls ==
    [kind : {"tail"}, lines : {StderrStream(MaxLines, k) : k \in BlankEvery}, read : {0}]

\* A path is kept as its components below the root; a last component ".." is
\* not a name.  verbatim: the text starts with the Windows prefix \\?\.
MaxDepth == 2
Components == {"v1", "rife-v4.6", ".."}
PathBuf(verbatim, comps) == [verbatim |-> verbatim, comps |-> comps]
Paths ==
    {PathBuf(v, c) : v \in BOOLEAN, c \in UNION {[1..n -> Components] : n \in 0..MaxDepth}}

\* Path::parent: the path without its last component, if it has one.
parent(p) ==
    IF p.comps = <<>> THEN None
    ELSE Some(PathBuf(p.verbatim, SubSeq(p.comps, 1, Len(p.comps) - 1)))

\* Path::file_name: the last component, if it is a name.
file_name(p) ==
    IF p.comps = <<>> \/ p.comps[Len(p.comps)] = ".." THEN None
    ELSE Some(p.comps[Len(p.comps)])

\* The -m argument: a bare folder name, or a path.
BareName(name) == [bare |-> TRUE, name |-> name, path |-> PathBuf(FALSE, <<>>)]
FullPath(p) == [bare |-> FALSE, name |-> "", path |-> p]

\* compute_rife_cwd_and_model_arg, lines 334-366.  windows: the build target.
compute_rife_cwd_and_model_arg_mut(rife_bin, model_path, windows) ==
    LET rife_dir == parent(rife_bin)
    IN  IF rife_dir.some /\ file_name(model_path).some
        THEN [cwd |-> rife_dir, arg |-> BareName(file_name(model_path).v)]
        ELSE [cwd |-> rife_dir, arg |-> FullPath(model_path)]
compute_rife_cwd_and_model_arg(rife_bin, model_path, windows) ==
    LET rife_dir == parent(rife_bin)
    IN  IF /\ rife_dir.some
           /\ parent(model_path).some
           /\ parent(model_path).v = rife_dir.v
           /\ file_name(model_path).some
        THEN [cwd |-> rife_dir, arg |-> BareName(file_name(model_path).v)]
        ELSE IF windows
        THEN [cwd |-> rife_dir, arg |-> FullPath(PathBuf(TRUE, model_path.comps))]
        ELSE [cwd |-> rife_dir, arg |-> FullPath(model_path)]

\* The binary is a file that was found in a directory; the prefix is met on
\* Windows only.
CwdCalls ==
    {c \in [kind : {"cwd"}, rife_bin : Paths, model_path : Paths, windows : BOOLEAN] :
        /\ file_name(c.rife_bin).some
        /\ (c.rife_bin.verbatim \/ c.model_path.verbatim) => c.windows}

\* A text is kept by whether it is non-empty and whether it contains "Usage:".
Txt(nonempty, usage) == [nonempty |-> nonempty, usage |-> usage]
Texts == {Txt(FALSE, FALSE), Txt(TRUE, FALSE), Txt(TRUE, TRUE)}

\* format!("{a}\n\n{b}")
Joined(a, b) == Txt(TRUE, a.usage \/ b.usage)

\* run_and_capture, lines 797-822.  run: whether the command started, its exit
\* status and what it wrote (stdout then stderr, trimmed).
run_and_capture(run) ==
    IF run.started THEN [ok |-> run.success, output |-> run.text]
    ELSE [ok |-> FALSE, output |-> Txt(TRUE, FALSE)]

\* validate_tools, lines 1292-1295: the note names the model directory, whose
\* path may itself contain "Usage:" (rife_models.v).
models_note(rife_models) ==
    IF rife_models.some THEN Txt(TRUE, rife_models.v) ELSE Txt(TRUE, FALSE)

\* validate_tools, lines 1285-1315: the interpolator's entry of the result.
validate_tools(rife_path, rife_models, run) ==
    IF rife_path
    THEN LET tv == run_and_capture(run)
             output == IF tv.output.nonempty THEN Joined(models_note(rife_models), tv.output)
                       ELSE models_note(rife_models)
             usage_like == output.usage
         IN  [ok |-> rife_models.some /\ (tv.ok \/ usage_like), path |-> TRUE,
              output |-> output]
    ELSE [ok |-> FALSE, path |-> FALSE, output |-> Txt(TRUE, FALSE)]

\* find_installed_tool_paths looks for models only next to a binary it found.
ModelsFound == {[some |-> FALSE, v |-> FALSE], Some(FALSE), Some(TRUE)}
ValidateCalls ==
    {c \in [kind : {"validate"}, rife_path : BOOLEAN, rife_models : ModelsFound,
            run : [started : BOOLEAN, success : BOOLEAN, text : Texts]] :
        /\ c.rife_models.some => c.rife_path
        /\ ~c.run.started => (~c.run.success /\ c.run.text = Txt(FALSE, FALSE))}

\* The version folder `dir` as read_dir yields it.  File names compare as
\* their bytes do (an upper-case letter before a lower-case one).
NameOrder == <<"docs", "models", "rife-UHD", "rife-anime", "rife-v2.3", "rife-v4.6">>
DirNames == {NameOrder[i] : i \in 1..Len(NameOrder)}
DirListings ==
    {l \in UNION {[1..n -> [name : DirNames, dir : BOOLEAN]] : n \in 0..MaxEntries} :
        \A i, j \in 1..Len(l) : l[i].name = l[j].name => i = j}

\* a.file_name().cmp(&b.file_name()) is Less
NameLess(a, b) ==
    \E i, j \in 1..Len(NameOrder) : NameOrder[i] = a /\ NameOrder[j] = b /\ i < j

\* name.starts_with("rife-")
StartsWithRife(name) == name \in {"rife-UHD", "rife-anime", "rife-v2.3", "rife-v4.6"}

\* dir.join(name).is_dir()
is_dir(l, name) == \E i \in 1..Len(l) : l[i].name = name /\ l[i].dir

\* The candidates: the directories named rife-*, in listing order.
RECURSIVE candidates(_)
candidates(l) ==
    IF l = <<>> THEN <<>>
    ELSE IF Head(l).dir /\ StartsWithRife(Head(l).name)
         THEN <<Head(l).name>> \o candidates(Tail(l))
    ELSE candidates(Tail(l))

\* candidates.sort_by(..); candidates.into_iter().next()
SortedFirst_mut(c) == IF c = <<>> THEN None ELSE Some(join(P, c[1]))
SortedFirst(c) ==
    IF c = <<>> THEN None
    ELSE Some(join(P, CHOOSE a \in {c[i] : i \in 1..Len(c)} :
                          \A i \in 1..Len(c) : ~NameLess(c[i], a)))

\* find_models_dir, lines 368-400.
find_models_dir(l) ==
    IF is_dir(l, "models") THEN Some(join(P, "models"))
    ELSE IF is_dir(l, "rife-v2.3") THEN Some(join(P, "rife-v2.3"))
    ELSE SortedFirst(candidates(l))

ModelsCalls == [kind : {"models"}, listing : DirListings]

\* The tree bin/<tool>: whether it exists and can be listed, and its entries; an
\* entry is a file or a folder, a folder can be listed or not and holds entries
\* that are files or folders.  Entries are kept as sets: the loops return on the
\* first match.
MaxVersions == 2
MaxFolder == 2
FileNames == {"rife-ncnn-vulkan", "RIFE.exe", "ffmpeg"}

\* The subsets of S of at most n elements.
RECURSIVE UpTo(_, _)
UpTo(S, n) ==
    IF n = 0 THEN {{}}
    ELSE LET T == UpTo(S, n - 1) IN T \cup {t \cup {x} : t \in T, x \in S}

Folders ==
    {f \in UpTo([name : FileNames, file : BOOLEAN], MaxFolder) :
        \A a, b \in f : a.name = b.name => a = b}
VersionEntries ==
    {[dir |-> FALSE, listable |-> FALSE, files |-> {}]}
        \cup [dir : {TRUE}, listable : BOOLEAN, files : Folders]
ToolDirs ==
    {[exists |-> FALSE, listable |-> FALSE, versions |-> {}]}
        \cup [exists : {TRUE}, listable : BOOLEAN,
              versions : UpTo(VersionEntries, MaxVersions)]

\* name.to_ascii_lowercase()
to_ascii_lowercase(name) == IF name = "RIFE.exe" THEN "rife.exe" ELSE name

\* name.starts_with("rife")
starts_with_rife(name) == name \in {"rife-ncnn-vulkan", "rife.exe"}

\* has_rife_executable, lines 181-195.
has_rife_executable_mut(d) == d.listable /\ \E f \in d.files : f.file
has_rife_executable(d) ==
    /\ d.listable
    /\ \E f \in d.files : f.file /\ starts_with_rife(to_ascii_lowercase(f.name))

\* tool_status, lines 198-231.  rootOk: app_root resolved the data directory.
tool_status(rootOk, tool, tool_dir) ==
    IF ~rootOk THEN "err"
    ELSE IF ~tool_dir.exists THEN "missing"
    ELSE IF /\ tool_dir.listable
            /\ \E v \in tool_dir.versions :
                  /\ v.dir
                  /\ IF tool = "rife" THEN has_rife_executable(v)
                     ELSE v.listable /\ \E f \in v.files : f.file
         THEN "installed"
    ELSE "missing"

StatusCalls ==
    {c \in [kind : {"status"}, rootOk : BOOLEAN, tool : {"rife", "ffmpeg"},
            tool_dir : ToolDirs] : c.rootOk \/ ~c.tool_dir.exists}

Calls ==
    ThreadCalls \cup FpsCalls \cup ProbeCalls \cup ResolveCalls \cup JobIdCalls
        \cup TailCalls \cup CwdCalls \cup ValidateCalls \cup ModelsCalls \cup StatusCalls

FnInit ==
    /\ pc = "call"
    /\ req \in Calls
    /\ result = "none"
    /\ events = <<>>
    /\ spawnLog = <<>>
    /\ child = [s \in Stages |-> NoChild]
    /\ rd = [s \in Stages |-> [x \in Streams |-> "none"]]
    /\ since_emit = 0
    /\ frame = 0
    /\ total_frames_est = 0
    /\ frame_count = 0
    /\ stderr_snippet = <<>>
    /\ stderr_tail = <<>>

\* The call returns v.
Return(v) ==
    /\ result' = v
    /\ pc' = "returned"
    /\ UNCHANGED <<req, events, spawnLog, child, rd, since_emit, frame,
                   total_frames_est, frame_count, stderr_snippet, stderr_tail>>

smooth_video_threads ==
    /\ pc = "call"
    /\ req.kind = "threads"
    /\ Return(threads(req.max_threads))

reencode_only_fps_out ==
    /\ pc = "call"
    /\ req.kind = "fps_out"
    /\ Return(fps_out(probe_fps(req)))

\* extract_frames_worker, line 683: the probe of the input.
extract_frames_worker_probe ==
    /\ pc = "call"
    /\ req.kind = "probe"
    /\ Return(probe_fps(req))

\* run_rife_pipeline, line 488.
run_rife_pipeline_resolve ==
    /\ pc = "call"
    /\ req.kind = "resolve"
    /\ Return(resolve_rife_model_path(req.listing, req.listable))

\* smooth_video, lines 980-999: the stderr thread has processed the lines.
smooth_video_stderr_tail ==
    /\ pc = "call"
    /\ req.kind = "tail"
    /\ \/ /\ req.read < Len(req.lines)
          /\ LET line == Trim(req.lines[req.read + 1])
             IN  stderr_tail' = IF IsEmpty(line) THEN stderr_tail
                                ELSE PushTail(stderr_tail, line)
          /\ req' = [req EXCEPT !.read = @ + 1]
          /\ UNCHANGED <<pc, result, events, spawnLog, child, rd, since_emit, frame,
                         total_frames_est, frame_count, stderr_snippet>>
       \/ /\ req.read = Len(req.lines)
          /\ Return(stderr_tail)

\* run_rife_pipeline, line 509, and smooth_video, line 948.
run_rife_pipeline_cwd ==
    /\ pc = "call"
    /\ req.kind = "cwd"
    /\ Return(compute_rife_cwd_and_model_arg(req.rife_bin, req.model_path, req.windows))

validate_tools_rife ==
    /\ pc = "call"
    /\ req.kind = "validate"
    /\ Return(validate_tools(req.rife_path, req.rife_models, req.run))

\* find_installed_tool_paths, line 428.
find_installed_tool_paths_models ==
    /\ pc = "call"
    /\ req.kind = "models"
    /\ Return(find_models_dir(req.listing))

tool_status_call ==
    /\ pc = "call"
    /\ req.kind = "status"
    /\ Return(tool_status(req.rootOk, req.tool, req.tool_dir))

\* extract_frames, lines 611-612, and smooth_video, lines 853-855.
accept_two_jobs ==
    /\ pc = "call"
    /\ req.kind = "job_ids"
    /\ Return(<<job_id(req.first, req.now1), job_id(req.second, req.now2)>>)

FnNext ==
    \/ smooth_video_threads
    \/ reencode_only_fps_out
    \/ extract_frames_worker_probe
    \/ run_rife_pipeline_resolve
    \/ smooth_video_stderr_tail
    \/ run_rife_pipeline_cwd
    \/ validate_tools_rife
    \/ find_installed_tool_paths_models
    \/ tool_status_call
    \/ accept_two_jobs

FnSpec == FnInit /\ [][FnNext]_vars

\* validate_tools, lines 1267-1282: the ffmpeg entry checks the binary that
\* find_installed_tool_paths found in the install tree, and nothing else.
validate_tools_ffmpeg(r) ==
    IF r.regFfmpeg THEN "registry" ELSE "none"

\* ================================================================ claims
DoneIdx == {i \in 1..Len(events) : events[i].type = "done"}
DoneCount == Cardinality(DoneIdx)
ProgressIdx(ev) == {i \in 1..Len(ev) : ev[i].type = "progress"}
SetMax(S) == CHOOSE m \in S : \A n \in S : n <= m

\* The latest pipeline_progress value the listener has received.
LastPct(ev) == IF ProgressIdx(ev) = {} THEN NoPct ELSE ev[SetMax(ProgressIdx(ev))].val

\* C1: a finished background task has emitted pipeline_done exactly once, and
\* no job ever emits it twice.
C1_DoneExactlyOnce ==
    /\ DoneCount <= 1
    /\ pc = "finished" => DoneCount = 1

C1_Witness ==
    /\ pc = "finished"
    /\ req.kind = "extract"
    /\ DoneCount = 1
    /\ ~events[Len(events)].val.ok

\* C2: after pipeline_done nothing else is emitted: the done event stays the
\* last event of the job.
C2_DoneIsLast == \A i \in DoneIdx : i = Len(events)

\* Who reads a stream: a reader thread, or the task's own loop over it.
InlineReader(s, x) ==
    \/ pc = "x_read" /\ s = "extract" /\ x = "stdout"
    \/ pc = "r_read" /\ s = "encode" /\ x = "stdout"
    \/ pc = "s_extract_read" /\ s = "extract" /\ x = "stderr"
    \/ pc = "s_encode_read" /\ s = "encode" /\ x = "stderr"
HasReader(s, x) == rd[s][x] = "running" \/ InlineReader(s, x)

\* C3: every piped stream has a reader of its own, so a subprocess that has
\* more to write than the pipe holds is never left at a full pipe that
\* nobody reads.
C3_NeverStuckOnFullPipe ==
    \A s \in Stages, x \in Streams :
        (/\ child[s].st = "running"
         /\ child[s].mode[x] = "piped"
         /\ child[s].left[x] > 0
         /\ child[s].buf[x] = PipeCap) => HasReader(s, x)

\* C4: every accepted job eventually emits pipeline_done.
C4_EventuallyDone == (result = "ok") ~> (DoneCount >= 1)

\* C5: the progress values of a job never decrease from one to the next.
C5_ProgressMonotone == [][LastPct(events') >= LastPct(events)]_vars

\* C6: a successful done event is preceded by a progress value of 100.
C6_SuccessAfter100 ==
    \A i \in DoneIdx : events[i].val.ok => LastPct(SubSeq(events, 1, i - 1)) = P100

\* The validation failures the requests name.
Invalid(r) ==
    \/ r.kind = "extract" /\ (ResolveFfmpeg(r) = "none" \/ ~r.inputExists)
    \/ r.kind = "smooth" /\ (ResolveFfmpeg(r) = "none" \/ ~r.rife \/ ~r.models
                               \/ ~r.inputExists \/ r.outputEmpty)
    \/ r.kind = "reencode" /\ (ResolveFfmpeg(r) = "none" \/ ~r.inputExists \/ r.outputEmpty
                                 \/ r.framesDirEmpty \/ ~r.framesDirExists)
    \/ r.kind = "raw" /\ (~r.rife \/ ~r.modelExists \/ ~r.inDirExists)

NothingStarted ==
    /\ events = <<>>
    /\ spawnLog = <<>>
    /\ pc = "rejected"
    /\ \A s \in Stages : child[s].st = "none" /\ \A x \in Streams : rd[s][x] = "none"

\* C7: a request that fails validation is answered with an error and starts
\* nothing: no subprocess, no background task, no event.
C7_RejectedStartsNothing ==
    /\ Invalid(req) => result = "err"
    /\ result = "err" => NothingStarted

C7_Witness ==
    /\ req.kind = "reencode"
    /\ req.outputEmpty
    /\ req.framesDirExists /\ ~req.framesDirEmpty /\ req.inputExists /\ req.rootOk
    /\ ResolveFfmpeg(req) # "none"
    /\ result = "err"

\* C8: no subprocess, the metadata probe included, is run by the request
\* handler: all of them run in the job's background task.
C8_NoSubprocessInHandler == \A i \in 1..Len(spawnLog) : spawnLog[i].ctx = "task"

StageFailed(s) ==
    \/ child[s].st = "spawnfail"
    \/ child[s].st = "exited" /\ child[s].status = "failure"
Later(s) ==
    IF s = "extract" THEN {"interp", "encode"} ELSE IF s = "interp" THEN {"encode"} ELSE {}

\* C9: in a smooth job a failed stage is the last one: no later stage is
\* spawned, nothing is spawned twice, and the job ends with done(ok=false).
C9_FailureAborts ==
    req.kind = "smooth" =>
        /\ \A i, j \in 1..Len(spawnLog) : spawnLog[i].stage = spawnLog[j].stage => i = j
        /\ \A s \in Stages : StageFailed(s) =>
              /\ \A t \in Later(s) : child[t].st = "none"
              /\ \A i \in DoneIdx : ~events[i].val.ok
              /\ pc = "finished" => DoneCount = 1

C9_Witness ==
    /\ req.kind = "smooth"
    /\ StageFailed("interp")
    /\ child["interp"].st = "exited"
    /\ pc = "finished"
    /\ DoneCount = 1

\* C10: in a smooth job at most one stage subprocess is alive at a time; RIFE
\* starts after ffmpeg has exited and the encoder after RIFE has exited.
C10_OneStageAlive ==
    req.kind = "smooth" =>
        /\ Cardinality({s \in Stages : child[s].st = "running"}) <= 1
        /\ child["interp"].st # "none" => child["extract"].st = "exited"
        /\ child["encode"].st # "none" => child["interp"].st = "exited"

C10_Witness ==
    /\ req.kind = "smooth"
    /\ child["encode"].st = "running"
    /\ child["interp"].st = "exited"
    /\ child["extract"].st = "exited"

\* The lines a job has kept of a stage's stderr: the snippet of
\* extract_frames_worker, the tail of smooth_video's RIFE stage.
StderrKept(s) ==
    IF req.kind = "extract" /\ s = "extract" THEN stderr_snippet
    ELSE IF req.kind = "smooth" /\ s = "interp" THEN stderr_tail
    ELSE <<>>

\* The job has read a non-empty line from the stage's stderr, so the stage
\* has written one.
WroteStderr(s) ==
    \/ \E i \in 1..Len(StderrKept(s)) : StderrKept(s)[i].len > 0
    \/ /\ (req.kind = "smooth" /\ s = "extract") \/ (req.kind = "raw" /\ s = "interp")
       /\ \E i \in 1..Len(events) : events[i].type = "log" /\ events[i].src = "stderr"

IsSuffix(a, b) == Len(a) <= Len(b) /\ a = SubSeq(b, Len(b) - Len(a) + 1, Len(b))

\* C11: when the extractor or the interpolator has exited unsuccessfully and
\* the job has read a non-empty line of its stderr, the message of the done
\* event the job then emits carries the most recent lines of that stderr, not
\* a generic text (a job whose wait() failed has no exit status to report and
\* is left aside).
C11_FailureMessageIsStderrTail ==
    [][(DoneCount = 0 /\ Len(events') > 0 /\ events'[Len(events')].type = "done") =>
        \A s \in {"extract", "interp"} :
            (child[s].st = "exited" /\ child[s].status = "failure" /\ WroteStderr(s)) =>
                LET done == events'[Len(events')].val
                IN  \/ done.message.text = "Failed waiting for ffmpeg"
                    \/ pc = "p_wait"
                    \/ /\ ~done.ok
                       /\ done.message.lines # <<>>
                       /\ IsSuffix(done.message.lines, StderrKept(s))]_vars

\* The done messages by which a listener recognises a subprocess that could
\* not be started.
StartFailureTexts ==
    {"Failed to start ffmpeg", "FFmpeg failed to start", "RIFE failed to start",
     "Encode failed to start", "ffmpeg failed to start"}
SaysStartFailure(d) == d.message.text \in StartFailureTexts

\* C12: the done event tells a subprocess that could not be spawned from one
\* that was spawned and exited with a nonzero status: the first kind of done
\* event names a start failure, the second never does.
C12_SpawnFailureDistinct ==
    pc = "finished" =>
        \A i \in DoneIdx :
            /\ (\E s \in Stages : child[s].st = "spawnfail") => SaysStartFailure(events[i].val)
            /\ (\E s \in Stages : child[s].st = "exited" /\ child[s].status = "failure")
                  => ~SaysStartFailure(events[i].val)

\* Position of the pipeline_stage event of step n (0 when not emitted yet).
StageAt(ev, n) ==
    LET S == {i \in 1..Len(ev) : ev[i].type = "stage" /\ ev[i].val = n}
    IN  IF S = {} THEN 0 ELSE CHOOSE i \in S : \A j \in S : i <= j

\* The progress events of the polling loop: those emitted after the stage
\* event of step 2 and before the one of step 3.
PollIdx ==
    {i \in ProgressIdx(events) :
        /\ StageAt(events, 2) # 0
        /\ i > StageAt(events, 2)
        /\ StageAt(events, 3) # 0 => i < StageAt(events, 3)}

\* C13: every progress value of the polling loop of a smooth job lies between
\* 33 and 66, whatever the file counts of frames_in (0 included) and of
\* frames_out (more than twice the input included).
C13_PollInBand ==
    req.kind = "smooth" => \A i \in PollIdx : events[i].val \in P33..(2 * P33)

\* All of MaxFiles input frames, and a poll that found more than twice as many
\* output files.
C13_Witness ==
    /\ req.kind = "smooth"
    /\ pc = "s_poll"
    /\ frame_count = MaxFiles
    /\ \E i \in PollIdx : events[i].val = 2 * P33

\* C14: the thread value passed to RIFE as t:t:t lies in 1..12: the default
\* for an absent or non-positive hint, the hint itself in 1..12, and 12 for a
\* larger hint.
C14_ThreadsClamped ==
    (pc = "returned" /\ req.kind = "threads") =>
        LET h == req.max_threads
        IN  \E t \in 1..MaxThreads :
               /\ result = <<t, t, t>>
               /\ (~h.some \/ h.v <= 0) => t = DefaultThreads
               /\ (h.some /\ h.v \in 1..MaxThreads) => t = h.v
               /\ (h.some /\ h.v > MaxThreads) => t = MaxThreads

C14_Witness ==
    /\ pc = "returned"
    /\ req.kind = "threads"
    /\ req.max_threads = Some(20)
    /\ result = <<12, 12, 12>>

\* The probe gave a frame rate / gave none (no ffprobe, unreadable output, or
\* a rate of 0).
Probed(p) == probe_fps(p).some /\ probe_fps(p).v.num > 0
ProbeFailed(p) == ~Probed(p)

\* C15: the frame rate reencode_only passes to the encoder is twice the probed
\* input rate (to the six decimals it is written with), and 1.0 when probing
\* failed.
C15_FpsDoubled ==
    (pc = "returned" /\ req.kind = "fps_out") =>
        /\ Probed(req) =>
              LET r == probe_fps(req).v
                  d == result * r.den - 2 * r.num * Micro
              IN  2 * d <= r.den /\ 2 * (0 - d) <= r.den
        /\ ProbeFailed(req) => result = Micro

\* The subdirectories of a listing, by position.
DirIdx(l) == {i \in 1..Len(l) : l[i].dir}

\* C16: resolve_rife_model_path returns p when p holds flownet.bin or
\* model.param; otherwise p/rife-v2.3 when that exists; otherwise the
\* subdirectory that comes first in the listing; otherwise p.
C16_ResolveOrder ==
    (pc = "returned" /\ req.kind = "resolve") =>
        LET l == req.listing
            D == DirIdx(l)
        IN  result =
               IF \E i \in 1..Len(l) : l[i].name \in {"flownet.bin", "model.param"} THEN P
               ELSE IF \E i \in 1..Len(l) : l[i].name = "rife-v2.3" THEN <<"rife-v2.3">>
               ELSE IF req.listable /\ D # {}
                    THEN <<l[CHOOSE i \in D : \A j \in D : i <= j].name>>
               ELSE P

\* The preferred folder is taken although another subdirectory is listed first.
C16_Witness ==
    /\ pc = "returned"
    /\ req.kind = "resolve"
    /\ req.listing = <<[name |-> "rife-v4.6", dir |-> TRUE], [name |-> "rife-v2.3", dir |-> TRUE]>>
    /\ result = <<"rife-v2.3">>

\* Two listings of the same directory: the same entries, in any order.
SameTree(l1, l2) == {l1[i] : i \in 1..Len(l1)} = {l2[i] : i \in 1..Len(l2)}

\* C17: resolve_rife_model_path gives the same result for the same tree,
\* whatever the order in which the listing yields the entries.
C17_ResolveDeterministic ==
    (pc = "returned" /\ req.kind = "resolve") =>
        \A l2 \in Listings :
            SameTree(l2, req.listing) =>
                resolve_rife_model_path(l2, req.listable) = result

\* C18: two accepted jobs have different job ids and therefore different
\* frames_in and frames_out directories.
C18_JobIdsDistinct ==
    (pc = "returned" /\ req.kind = "job_ids") =>
        /\ result[1] # result[2]
        /\ frames_in_dir(result[1]) # frames_in_dir(result[2])
        /\ frames_out_dir(result[1]) # frames_out_dir(result[2])

\* The task has counted the files of the frames directory.
FramesCounted ==
    pc \notin {"idle", "rejected", "x_probe", "x_spawn", "x_read", "x_wait",
               "s_extract", "s_extract_read", "s_extract_wait"}

\* C19: when the extraction subprocess has exited successfully and the frames
\* directory holds no file, the job goes on to no later stage and ends with
\* done(ok=false), in extract_frames and in smooth_video.
C19_ZeroFramesFails ==
    (/\ req.kind \in {"extract", "smooth"}
     /\ child["extract"].st = "exited"
     /\ child["extract"].status = "success"
     /\ FramesCounted
     /\ frame_count = 0) =>
        /\ StageAt(events, 2) = 0
        /\ child["interp"].st = "none"
        /\ \A i \in DoneIdx : ~events[i].val.ok
        /\ pc = "finished"

\* The steps named by the pipeline_stage events, in the order of emission.
RECURSIVE StageVals(_)
StageVals(ev) ==
    IF ev = <<>> THEN <<>>
    ELSE IF Head(ev).type = "stage" THEN <<Head(ev).val>> \o StageVals(Tail(ev))
    ELSE StageVals(Tail(ev))

\* C20: a smooth job emits the stage events of steps 1, 2, 3 in that order,
\* each at most once, and every progress value of the interpolation band
\* (33..66) comes after the stage event of step 2 and before that of step 3.
C20_StageOrder ==
    req.kind = "smooth" =>
        /\ \E n \in 0..3 : StageVals(events) = SubSeq(<<1, 2, 3>>, 1, n)
        /\ \A i \in ProgressIdx(events) :
              events[i].val \in P33..(2 * P33) => i \in PollIdx

C20_Witness ==
    /\ req.kind = "smooth"
    /\ pc = "finished"
    /\ StageVals(events) = <<1, 2, 3>>
    /\ PollIdx # {}
    /\ events[Len(events)].val.ok

\* The subprocess of a throttled stdout loop (extraction or re-encode) is still
\* running and the task is in that loop.
LoopRunning ==
    \/ pc = "x_read" /\ child["extract"].st = "running"
    \/ pc = "r_read" /\ child["encode"].st = "running"

\* C21: while the extraction or re-encode subprocess is still running, every
\* progress value the listener has received is at least 0 and strictly below
\* 100; 100 is emitted only after the subprocess has exited.
C21_LoopPctBelow100 ==
    LoopRunning =>
        \A i \in ProgressIdx(events) : events[i].val >= 0 /\ events[i].val < P100

\* C22: with an estimated total of 0 the throttled loops emit no progress
\* event computed from a frame counter: the extraction job has emitted no
\* progress event at all, the re-encode job only its initial 0.
C22_NoPctWithoutTotal ==
    /\ (pc = "x_read" /\ total_frames_est = 0) => ProgressIdx(events) = {}
    /\ (pc = "r_read" /\ total_frames_est = 0) => LastPct(events) = 0

\* A frame counter was read, the throttle interval has passed and a further
\* line is waiting, with a total of 0.
C22_Witness ==
    /\ pc \in {"x_read", "r_read"}
    /\ total_frames_est = 0
    /\ frame > 0
    /\ Elapsed >= ThrottleMs
    /\ \E s \in {"extract", "encode"} : CanRead(s, "stdout")

\* Every number of the r_frame_rate text parses.
FpsParses(t) == t.a.ok /\ (t.slash => t.b.ok)

\* C23: probe_duration_and_fps returns a pair exactly when ffprobe is there
\* and runs, the duration parses and the frame-rate text (plain or num/den)
\* parses; in every other case it returns absence.
C23_ProbeAbsence ==
    (pc = "returned" /\ req.kind = "probe") =>
        (result.some <=> (req.hasProbe /\ req.durOk /\ FpsParses(req.fps_s)))

\* C24: a step of the extraction or re-encode loop that gives the listener a
\* new progress value is taken no sooner than 250 ms after last_emit, and sets
\* last_emit; last_emit is never earlier than the emission before, so two
\* consecutive values are at least 250 ms apart.
C24_Throttled ==
    [][(pc \in {"x_read", "r_read"} /\ LastPct(events') # LastPct(events))
          => (Elapsed >= ThrottleMs /\ since_emit' = 0)]_vars

\* A progress value was emitted from the loop, the throttle interval has
\* passed again and the next line is waiting.
C24_Witness ==
    /\ \/ pc = "x_read" /\ CanRead("extract", "stdout") /\ LastPct(events) > 0
       \/ pc = "r_read" /\ CanRead("encode", "stdout") /\ LastPct(events) > 0
    /\ Elapsed >= ThrottleMs

LogIdx == {i \in 1..Len(events) : events[i].type = "log"}

\* C25: every pipeline_log event the listener has received carries a
\* non-empty text of at most 400 characters.
C25_LogsLimited ==
    \A i \in LogIdx : StrLen(events[i].val) > 0 /\ StrLen(events[i].val) <= LogLimit

\* The non-empty lines of a stream, trimmed, in arrival order.
NonBlank(l) == ~IsEmpty(Trim(l))
Arrived(lines) ==
    LET kept == SelectSeq(lines, NonBlank)
    IN  [i \in 1..Len(kept) |-> Trim(kept[i])]

\* C26: after the stderr thread has processed each line, the tail
\* holds at most 64 lines, and they are the most recent non-empty trimmed
\* lines in arrival order.
C26_TailIsRecent ==
    req.kind = "tail" =>
        LET a == Arrived(SubSeq(req.lines, 1, req.read))
            n == Min(Len(a), TailLimit)
        IN  /\ Len(stderr_tail) <= TailLimit
            /\ stderr_tail = SubSeq(a, Len(a) - n + 1, Len(a))

\* More than 64 non-empty lines arrived, with blank ones in between, and the
\* oldest are gone.
C26_Witness ==
    /\ req.kind = "tail"
    /\ Len(Arrived(SubSeq(req.lines, 1, req.read))) > TailLimit
    /\ Len(Arrived(SubSeq(req.lines, 1, req.read))) < req.read
    /\ Len(stderr_tail) = TailLimit
    /\ stderr_tail[1] # Arrived(req.lines)[1]

\* The model path's parent is the directory of the interpolator binary.
ModelNextToBinary ==
    /\ parent(req.rife_bin).some
    /\ parent(req.model_path).some
    /\ parent(req.model_path).v = parent(req.rife_bin).v

\* C27 as stated: when the model directory's parent equals the directory of
\* the binary, the working directory is that directory and the model argument
\* the bare folder name; in every other case the argument is the full path.
C27_SiblingGetsBareName ==
    (pc = "returned" /\ req.kind = "cwd") =>
        IF ModelNextToBinary
        THEN /\ result.cwd = parent(req.rife_bin)
             /\ result.arg.bare
        ELSE /\ ~result.arg.bare
             /\ result.arg.path.comps = req.model_path.comps

\* C27, amended: the bare folder name is passed when the model path's parent
\* is the directory of the binary and the path ends in a name; in every other
\* case (a last component "..", too) the argument is the full model path.
C27_NamedSiblingGetsBareName ==
    (pc = "returned" /\ req.kind = "cwd") =>
        IF ModelNextToBinary /\ file_name(req.model_path).some
        THEN /\ result.cwd = parent(req.rife_bin)
             /\ result.arg = BareName(req.model_path.comps[Len(req.model_path.comps)])
        ELSE /\ ~result.arg.bare
             /\ result.arg.path.comps = req.model_path.comps

\* A model folder next to the binary was passed by its bare name.
C27_Witness ==
    /\ pc = "returned"
    /\ req.kind = "cwd"
    /\ ModelNextToBinary
    /\ result.arg = BareName("rife-v4.6")
    /\ result.cwd.some

\* The help run exited successfully / wrote usage text.
HelpSucceeded == req.run.started /\ req.run.success
HelpPrintedUsage == req.run.started /\ req.run.text.usage

\* C28: validate_tools reports the interpolator as ok exactly when a model
\* directory was found and the help run exited successfully or its captured
\* output contains usage text; with no model directory it is never ok.
C28_RifeOkIffModelsAndHelp ==
    (pc = "returned" /\ req.kind = "validate") =>
        (result.ok <=> (req.rife_models.some /\ (HelpSucceeded \/ HelpPrintedUsage)))

\* The subdirectories of the listing whose name starts with rife-.
RifeDirs(l) == {l[i].name : i \in {j \in 1..Len(l) : l[j].dir /\ StartsWithRife(l[j].name)}}

\* C29: find_models_dir returns models when it is a directory; otherwise
\* rife-v2.3 when it is a directory; otherwise the subdirectory named rife-*
\* with the smallest name, whatever the listing order; otherwise absence.
C29_ModelsDirOrder ==
    (pc = "returned" /\ req.kind = "models") =>
        LET l == req.listing
        IN  IF is_dir(l, "models") THEN result = Some(join(P, "models"))
            ELSE IF is_dir(l, "rife-v2.3") THEN result = Some(join(P, "rife-v2.3"))
            ELSE IF RifeDirs(l) # {}
                 THEN /\ result.some
                      /\ \E a \in RifeDirs(l) :
                            /\ result.v = join(P, a)
                            /\ \A b \in RifeDirs(l) : a = b \/ NameLess(a, b)
            ELSE ~result.some

\* The smallest rife-* folder was returned although the listing yields a
\* larger one first, next to a file named models.
C29_Witness ==
    /\ pc = "returned"
    /\ req.kind = "models"
    /\ req.listing = <<[name |-> "rife-v4.6", dir |-> TRUE], [name |-> "models", dir |-> FALSE],
                       [name |-> "rife-anime", dir |-> TRUE]>>
    /\ result = Some(join(P, "rife-anime"))

\* The version folders of the tree that can be looked into.
SeenFolders(d) ==
    IF d.exists /\ d.listable THEN {v \in d.versions : v.dir /\ v.listable} ELSE {}

\* The name, lower-cased, starts with rife.
RifeNamed(name) == name \in {"rife-ncnn-vulkan", "RIFE.exe"}

\* C30: once the data directory is resolved, tool_status reports installed
\* for the interpolator exactly when some version folder holds a regular file
\* whose lower-cased name starts with rife, and for the extractor exactly when
\* some version folder holds any regular file; in every other case, an absent
\* or unreadable tree included, it reports missing and no error.
C30_StatusByFiles ==
    (pc = "returned" /\ req.kind = "status" /\ req.rootOk) =>
        /\ result \in {"installed", "missing"}
        /\ result = "installed" <=>
              \E v \in SeenFolders(req.tool_dir) : \E f \in v.files :
                  f.file /\ (req.tool = "rife" => RifeNamed(f.name))

\* The interpolator is reported installed for a file named RIFE.exe, next to
\* a folder that holds nothing but a directory named rife-ncnn-vulkan.
C30_Witness ==
    /\ pc = "returned"
    /\ req.kind = "status"
    /\ req.tool = "rife"
    /\ result = "installed"
    /\ \E v, w \in SeenFolders(req.tool_dir) :
          /\ v.files = {[name |-> "RIFE.exe", file |-> TRUE]}
          /\ w.files = {[name |-> "rife-ncnn-vulkan", file |-> FALSE]}

\* The extract-only job has reported the extractor's unsuccessful exit.
ExtractExitReported ==
    /\ req.kind = "extract"
    /\ pc = "finished"
    /\ child["extract"].status = "failure"
    /\ \E i \in DoneIdx : events[i].val.message.text = "ffmpeg exited with status"

\* C31: the failure message of the extract-only job holds every stderr line
\* the extractor wrote (up to the size cap): nothing is left in the pipe
\* unless the reader stopped at the cap, and the reader thread has collected
\* no line that the message lacks.
C31_FailureMessageComplete ==
    ExtractExitReported =>
        \A i \in DoneIdx :
            /\ child["extract"].buf["stderr"] = 0 \/ rd["extract"]["stderr"] = "stopped"
            /\ \/ events[i].val.message.lines = stderr_snippet
               \/ /\ events[i].val.message.lines = <<>>
                  /\ \A j \in 1..Len(stderr_snippet) : stderr_snippet[j].len = 0

\* C32: a job that has emitted a progress value of 100 does not afterwards
\* emit done(ok = false).
C32_No100ThenFailure ==
    \A i \in DoneIdx :
        ~events[i].val.ok =>
            \A j \in ProgressIdx(events) : j < i => events[j].val # P100

\* The request is for one of the jobs that run the extractor binary, and the
\* handler has answered it.
FfmpegJobAnswered ==
    /\ req.kind \in {"extract", "smooth", "reencode"}
    /\ req.rootOk
    /\ pc # "idle"

\* C33: an accepted job runs the extractor binary of the install tree, the one
\* validate_tools checks, and a request made while the install tree holds no
\* extractor binary is rejected.
C33_JobRunsInstalledFfmpeg ==
    FfmpegJobAnswered =>
        /\ result = "ok" => ResolveFfmpeg(req) = validate_tools_ffmpeg(req)
        /\ ~req.regFfmpeg => result = "err"

====
